---- MODULE Spec2Model ----
(***************************************************************************)
(* Versioned dependency-graph data model of gml4tdm/study-2:               *)
(* VersionTriple.load_and_check, the directed -> undirected projection     *)
(* (VersionTriple / Graph / Edge / EdgeLabels .as_undirected_problem) and   *)
(* evaluate, as written in data-processing/shared.py; and the package      *)
(* graph, its topological metrics and generate_metrics, as written in      *)
(* replication/compute_network_metrics.py; ProjectGraph of                 *)
(* replication/learn.py; and main of data-processing/svm.py and            *)
(* data-processing/svm_time.py, the callers of evaluate.                   *)
(***************************************************************************)
EXTENDS Integers, Sequences, FiniteSets, TLC

VARIABLES
    file,        \* the serialized artifact handed to load_and_check
    heap,        \* the Graph objects alive, by identity (index in the sequence)
    loaded,      \* the VersionTriple returned by load_and_check
    triple,      \* the VersionTriple the pipeline currently holds
    error,       \* kind of the exception raised by the last operation
    pc,          \* position of the pipeline
    nproj,       \* number of as_undirected_problem calls made so far
    predictions, \* the predictions argument of the last evaluate call
    limited_to,  \* the limited_to argument of the last evaluate call
    evaluation,  \* what the last evaluate call returned
    odem,        \* the .odem document handed to generate_metrics
    features,    \* the rows of the semantic feature file next to it
    semantic_map,\* the dict semantic_map of generate_metrics
    graph,       \* the Graph object of generate_metrics
    data,        \* the dict data of generate_metrics
    loop,        \* the iteration order of graph.nodes and the position of
                 \* the two nested loops in it
    bar,         \* the progress bar: its total and the calls of progress()
    constructed, \* how often the Katz and the SimRank matrix were built
    mpc,         \* position of generate_metrics
    merror,      \* kind of the exception generate_metrics raised
    made_for,    \* for each prediction handed to evaluate by svm.main or
                 \* svm_time.main, the edge it was computed for
    project_graph, \* a ProjectGraph object of replication/learn.py
    query        \* the last method call on graph or project_graph, with
                 \* what it returned or raised

\* the state of the load / project / evaluate pipeline
pipelineVars == <<file, heap, loaded, triple, error, pc, nproj,
                  predictions, limited_to, evaluation>>

\* the state of generate_metrics
metricsVars == <<odem, features, semantic_map, graph, data, loop, bar,
                 constructed, mpc, merror>>

\* the state of the callers of evaluate and of the method calls
callVars == <<made_for, project_graph, query>>

vars == <<file, heap, loaded, triple, error, pc, nproj,
          predictions, limited_to, evaluation,
          odem, features, semantic_map, graph, data, loop, bar,
          constructed, mpc, merror, made_for, project_graph, query>>

----------------------------------------------------------------------------
(* Bounds of the model *)

MaxIdx == 1          \* node indices in serialized edges are 0..MaxIdx
MaxLabelled == 2     \* longest edge_labels.edges / edge_labels.labels list
MaxEdges == 2        \* longest structural Graph.edges list
MaxDependsOn == 2    \* most depends-on elements in an .odem document
MaxFeatureRows == 2  \* most rows in a semantic feature file
MaxProjections == 2  \* as_undirected_problem calls per run
MaxEvalEdges == 2    \* longest edge_labels lists in the evaluation runs
MaxPredictions == 2  \* longest predictions list handed to evaluate
MaxDiagramEdges == 3 \* most edges of a package diagram that is queried
MaxLinkFeatures == 2 \* most items of data['link-features'] of a project
MaxGraphEdges == 2   \* most items of data['edges'] of a project

----------------------------------------------------------------------------
(* Python values *)

\* Optional[T]: None is the empty tuple, a present value v is <<v>>.
None == <<>>
Some(v) == <<v>>

Min(a, b) == IF a <= b THEN a ELSE b

SeqsUpTo(S, n) == UNION {[1..k -> S] : k \in 0..n}

Range(s) == {s[i] : i \in 1..Len(s)}

\* VersionTriple.load_and_check: the expected metadata.magic_number
MagicNumber == 65793

----------------------------------------------------------------------------
(* Edge.as_undirected_problem *)

Edge_as_undirected_problem(edge) ==
    [from |-> edge.to, to |-> edge.from, edge_type |-> edge.edge_type]

----------------------------------------------------------------------------
(* EdgeLabels.as_undirected_problem *)

\* zip(self.edges, self.labels): stops at the shorter list
ZipLen(el) == Min(Len(el.edges), Len(el.labels))

\* lookup = {(fr, to): flag for (fr, to), flag in zip(...)}; a later
\* occurrence of a key overwrites an earlier one.  lookup.get(key)
LookupGet(el, key) ==
    LET hits == {i \in 1..ZipLen(el) : el.edges[i] = key}
    IN  IF hits = {} THEN None
        ELSE Some(el.labels[CHOOSE i \in hits : \A j \in hits : j <= i])

\* (variant: the reverse label is never consulted)
MergedFlagForwardOnly(el, i) == Some(el.labels[i])

\* if not flag: flag = flag or lookup.get((to, fr))
\* (Python's `or` yields its second operand when the first is falsy, so a
\* missing reverse entry makes the flag None)
MergedFlag(el, i) ==
    IF el.labels[i]
    THEN Some(TRUE)
    ELSE LookupGet(el, <<el.edges[i][2], el.edges[i][1]>>)

\* (variant: the label is appended outside the if)
LabelLoopAppendsEveryLabel(el, i, acc) ==
    IF el.edges[i] \notin acc.seen
       /\ <<el.edges[i][2], el.edges[i][1]>> \notin acc.seen
    THEN [undirected_edges  |-> Append(acc.undirected_edges, el.edges[i]),
          seen              |-> acc.seen \cup {el.edges[i]},
          undirected_labels |-> Append(acc.undirected_labels, MergedFlag(el, i))]
    ELSE [acc EXCEPT !.undirected_labels = Append(@, Some(el.labels[i]))]

\* (variant: only the forward key is looked up in seen)
LabelLoopIgnoresReverse(el, i, acc) ==
    IF el.edges[i] \notin acc.seen
    THEN [undirected_edges  |-> Append(acc.undirected_edges, el.edges[i]),
          seen              |-> acc.seen \cup {el.edges[i]},
          undirected_labels |-> Append(acc.undirected_labels, MergedFlag(el, i))]
    ELSE acc

\* (variant: a kept pair is written with its smaller index first)
LabelLoopKeepsSmallerFirst(el, i, acc) ==
    IF el.edges[i] \notin acc.seen
       /\ <<el.edges[i][2], el.edges[i][1]>> \notin acc.seen
    THEN [undirected_edges  |->
              Append(acc.undirected_edges,
                     IF el.edges[i][1] <= el.edges[i][2]
                     THEN el.edges[i]
                     ELSE <<el.edges[i][2], el.edges[i][1]>>),
          seen              |-> acc.seen \cup {el.edges[i]},
          undirected_labels |-> Append(acc.undirected_labels, MergedFlag(el, i))]
    ELSE acc

\* the body of the for loop, for the i-th zipped item
LabelLoopBody(el, i, acc) ==
    IF el.edges[i] \notin acc.seen
       /\ <<el.edges[i][2], el.edges[i][1]>> \notin acc.seen
    THEN [undirected_edges  |-> Append(acc.undirected_edges, el.edges[i]),
          seen              |-> acc.seen \cup {el.edges[i]},
          undirected_labels |-> Append(acc.undirected_labels, MergedFlag(el, i))]
    ELSE acc

RECURSIVE LabelLoop(_, _)
\* the state of the loop after its first k iterations
LabelLoop(el, k) ==
    IF k = 0
    THEN [undirected_edges |-> <<>>, seen |-> {}, undirected_labels |-> <<>>]
    ELSE LabelLoopBody(el, k, LabelLoop(el, k - 1))

\* EdgeLabels(edges=..., labels=...): pydantic checks labels: list[bool], so
\* a None among the labels raises a ValidationError
EdgeLabels_new(edges, labels) ==
    IF \E i \in 1..Len(labels) : labels[i] = None
    THEN [ok |-> FALSE, error |-> "ValidationError",
          value |-> [edges |-> <<>>, labels |-> <<>>]]
    ELSE [ok |-> TRUE, error |-> "none",
          value |-> [edges  |-> edges,
                     labels |-> [i \in 1..Len(labels) |-> labels[i][1]]]]

EdgeLabels_as_undirected_problem(el) ==
    LET done == LabelLoop(el, ZipLen(el))
    IN  EdgeLabels_new(done.undirected_edges, done.undirected_labels)

----------------------------------------------------------------------------
(* Graph.as_undirected_problem *)

\* the body of the for loop over self.edges, for the i-th edge
EdgeLoopBody(edges, i, acc) ==
    IF <<edges[i].from, edges[i].to>> \notin acc.seen
       /\ <<edges[i].to, edges[i].from>> \notin acc.seen
    THEN [undirected_edges |->
              Append(acc.undirected_edges, Edge_as_undirected_problem(edges[i])),
          seen |-> acc.seen \cup {<<edges[i].from, edges[i].to>>}]
    ELSE acc

RECURSIVE EdgeLoop(_, _)
EdgeLoop(edges, k) ==
    IF k = 0
    THEN [undirected_edges |-> <<>>, seen |-> {}]
    ELSE EdgeLoopBody(edges, k, EdgeLoop(edges, k - 1))

\* The Graph(...) built by lines 77-84 for a directed self; not ok when
\* self.edge_labels.as_undirected_problem() raises.
Graph_projected(g) ==
    LET labels == EdgeLabels_as_undirected_problem(g.edge_labels)
    IN  [ok    |-> labels.ok,
         error |-> labels.error,
         value |-> [nodes       |-> g.nodes,
                    edges       |-> EdgeLoop(g.edges, Len(g.edges)).undirected_edges,
                    hierarchies |-> g.hierarchies,
                    edge_labels |-> labels.value,
                    directed    |-> FALSE,
                    classes     |-> g.classes]]

\* (variant: no early return for an undirected self)
GraphProjectNoEarlyReturn(h, id) ==
    LET built == Graph_projected(h[id])
    IN  IF built.ok
        THEN [ok |-> TRUE, error |-> "none",
              heap |-> Append(h, built.value), ref |-> Len(h) + 1]
        ELSE [ok |-> FALSE, error |-> built.error, heap |-> h, ref |-> 0]

\* (variant: the projection is stored into self)
GraphProjectInPlace(h, id) ==
    IF ~h[id].directed
    THEN [ok |-> TRUE, error |-> "none", heap |-> h, ref |-> id]
    ELSE LET built == Graph_projected(h[id])
         IN  IF built.ok
             THEN [ok |-> TRUE, error |-> "none",
                   heap |-> [h EXCEPT ![id] = built.value], ref |-> id]
             ELSE [ok |-> FALSE, error |-> built.error, heap |-> h, ref |-> 0]

\* Graph.as_undirected_problem on the object heap h[id]: an undirected graph
\* returns itself (the same object), a directed one a newly built object.
\* Yields the heap afterwards and the identity of the returned graph.
Graph_as_undirected_problem(h, id) ==
    IF ~h[id].directed
    THEN [ok |-> TRUE, error |-> "none", heap |-> h, ref |-> id]
    ELSE LET built == Graph_projected(h[id])
         IN  IF built.ok
             THEN [ok |-> TRUE, error |-> "none",
                   heap |-> Append(h, built.value), ref |-> Len(h) + 1]
             ELSE [ok |-> FALSE, error |-> built.error, heap |-> h, ref |-> 0]

----------------------------------------------------------------------------
(* VersionTriple.as_undirected_problem *)

\* training_graph is projected first, then test_graph; an exception of either
\* call propagates and no VersionTriple is built.
VersionTriple_as_undirected_problem(h, t) ==
    LET train == Graph_as_undirected_problem(h, t.training_graph)
        test  == Graph_as_undirected_problem(train.heap, t.test_graph)
    IN  IF ~train.ok
        THEN [ok |-> FALSE, error |-> train.error, heap |-> h, value |-> t]
        ELSE IF ~test.ok
        THEN [ok |-> FALSE, error |-> test.error, heap |-> h, value |-> t]
        ELSE [ok |-> TRUE, error |-> "none", heap |-> test.heap,
              value |-> [project        |-> t.project,
                         version_1      |-> t.version_1,
                         version_2      |-> t.version_2,
                         version_3      |-> t.version_3,
                         training_graph |-> train.ref,
                         test_graph     |-> test.ref,
                         metadata       |-> t.metadata]]

----------------------------------------------------------------------------
(* VersionTriple.load_and_check *)

\* pydantic.TypeAdapter(cls).validate_json: the document matches the schema
\* when no required field is missing or null.  Edge indices are plain ints
\* to the schema: they are not compared with the node list.
SchemaMatches(doc) ==
    /\ doc.project # None
    /\ doc.metadata.magic_number # None

TypedTriple(doc) ==
    [project        |-> doc.project[1],
     version_1      |-> doc.version_1,
     version_2      |-> doc.version_2,
     version_3      |-> doc.version_3,
     training_graph |-> 1,
     test_graph     |-> 2,
     metadata       |-> [only_common_nodes_for_training |->
                             doc.metadata.only_common_nodes_for_training,
                         gnn_safe     |-> doc.metadata.gnn_safe,
                         magic_number |-> doc.metadata.magic_number[1]]]

NoTriple ==
    [project |-> "", version_1 |-> "", version_2 |-> "", version_3 |-> "",
     training_graph |-> 0, test_graph |-> 0,
     metadata |-> [only_common_nodes_for_training |-> FALSE,
                   gnn_safe |-> FALSE, magic_number |-> 0]]

\* (variant: the magic number is not compared)
LoadSkipsMagicCheck(doc) ==
    IF ~SchemaMatches(doc)
    THEN [ok |-> FALSE, error |-> "ValidationError", heap |-> <<>>,
          value |-> NoTriple]
    ELSE [ok |-> TRUE, error |-> "none",
          heap |-> <<doc.training_graph, doc.test_graph>>,
          value |-> TypedTriple(doc)]

VersionTriple_load_and_check(doc) ==
    IF ~SchemaMatches(doc)
    THEN [ok |-> FALSE, error |-> "ValidationError", heap |-> <<>>,
          value |-> NoTriple]
    ELSE IF doc.metadata.magic_number[1] # MagicNumber
    THEN [ok |-> FALSE, error |-> "ValueError", heap |-> <<>>,
          value |-> NoTriple]
    ELSE [ok |-> TRUE, error |-> "none",
          heap |-> <<doc.training_graph, doc.test_graph>>,
          value |-> TypedTriple(doc)]

----------------------------------------------------------------------------
(* evaluate *)

\* zip(edges, zip(labels, predictions)): stops at the shortest of the three
EvalLen(g, preds) ==
    Min(Len(g.edge_labels.edges), Min(Len(g.edge_labels.labels), Len(preds)))

\* limited_to is [given |-> FALSE] for None, else the set of edges
NoLimit == [given |-> FALSE, edges |-> {}]

\* (variant: limited_to is ignored)
SkippedNever(limited, edge) == FALSE

\* if limited_to is not None and edge not in limited_to: continue
Skipped(limited, edge) == limited.given /\ edge \notin limited.edges

\* triple.test_graph.nodes[k]: a list index, 0-based
HasNode(g, k) == k + 1 \in 1..Len(g.nodes)

NoCounts ==
    [ok |-> TRUE, true_positives |-> 0, false_positives |-> 0,
     false_negatives |-> 0, true_negatives |-> 0,
     predicted_dependencies |-> <<>>]

\* (variant: every scored edge is appended to predicted)
EvalLoopListsEveryEdge(g, preds, limited, i, acc) ==
    LET edge  == g.edge_labels.edges[i]
        truth == g.edge_labels.labels[i]
        pred  == preds[i]
    IN  IF ~acc.ok \/ Skipped(limited, edge)
        THEN acc
        ELSE LET counted ==
                     [acc EXCEPT
                        !.true_positives  = IF truth /\ pred THEN @ + 1 ELSE @,
                        !.false_negatives = IF truth /\ ~pred THEN @ + 1 ELSE @,
                        !.false_positives = IF pred /\ ~truth THEN @ + 1 ELSE @,
                        !.true_negatives  = IF ~truth /\ ~pred THEN @ + 1 ELSE @]
             IN  IF FALSE
                 THEN counted
                 ELSE IF HasNode(g, edge[1]) /\ HasNode(g, edge[2])
                 THEN [counted EXCEPT !.predicted_dependencies =
                          Append(@, <<g.nodes[edge[1] + 1], g.nodes[edge[2] + 1]>>)]
                 ELSE [counted EXCEPT !.ok = FALSE]

\* (variant: the two kinds of error are counted under each other's name)
EvalLoopSwapsFalseCounters(g, preds, limited, i, acc) ==
    LET edge  == g.edge_labels.edges[i]
        truth == g.edge_labels.labels[i]
        pred  == preds[i]
    IN  IF ~acc.ok \/ Skipped(limited, edge)
        THEN acc
        ELSE LET counted ==
                     [acc EXCEPT
                        !.true_positives  = IF truth /\ pred THEN @ + 1 ELSE @,
                        !.false_positives = IF truth /\ ~pred THEN @ + 1 ELSE @,
                        !.false_negatives = IF pred /\ ~truth THEN @ + 1 ELSE @,
                        !.true_negatives  = IF ~truth /\ ~pred THEN @ + 1 ELSE @]
             IN  IF ~pred
                 THEN counted
                 ELSE IF HasNode(g, edge[1]) /\ HasNode(g, edge[2])
                 THEN [counted EXCEPT !.predicted_dependencies =
                          Append(@, <<g.nodes[edge[1] + 1], g.nodes[edge[2] + 1]>>)]
                 ELSE [counted EXCEPT !.ok = FALSE]

\* the body of the for loop, for the i-th zipped item
EvalLoopBody(g, preds, limited, i, acc) ==
    LET edge  == g.edge_labels.edges[i]
        truth == g.edge_labels.labels[i]
        pred  == preds[i]
    IN  IF ~acc.ok \/ Skipped(limited, edge)
        THEN acc
        ELSE LET counted ==
                     [acc EXCEPT
                        !.true_positives  = IF truth /\ pred THEN @ + 1 ELSE @,
                        !.false_negatives = IF truth /\ ~pred THEN @ + 1 ELSE @,
                        !.false_positives = IF pred /\ ~truth THEN @ + 1 ELSE @,
                        !.true_negatives  = IF ~truth /\ ~pred THEN @ + 1 ELSE @]
             IN  IF ~pred
                 THEN counted
                 ELSE IF HasNode(g, edge[1]) /\ HasNode(g, edge[2])
                 THEN [counted EXCEPT !.predicted_dependencies =
                          Append(@, <<g.nodes[edge[1] + 1], g.nodes[edge[2] + 1]>>)]
                 ELSE [counted EXCEPT !.ok = FALSE]

RECURSIVE EvalLoop(_, _, _, _)
EvalLoop(g, preds, limited, k) ==
    IF k = 0
    THEN NoCounts
    ELSE EvalLoopBody(g, preds, limited, k, EvalLoop(g, preds, limited, k - 1))

NoEvaluation ==
    [ok |-> FALSE, error |-> "none",
     project |-> "", version_1 |-> "", version_2 |-> "", version_3 |-> "",
     output |-> [true_positives |-> 0, false_positives |-> 0,
                 false_negatives |-> 0, true_negatives |-> 0,
                 predicted_dependencies |-> <<>>]]

\* an evaluation that reports the middle version as the tested one
EvaluateReportsOtherVersion(h, t, preds, limited) ==
    LET g    == h[t.test_graph]
        done == EvalLoop(g, preds, limited, EvalLen(g, preds))
    IN  IF ~done.ok
        THEN [NoEvaluation EXCEPT !.error = "IndexError"]
        ELSE [ok |-> TRUE, error |-> "none",
              project   |-> t.project,
              version_1 |-> t.version_1,
              version_2 |-> t.version_2,
              version_3 |-> t.version_2,
              output |-> [true_positives  |-> done.true_positives,
                          false_positives |-> done.false_positives,
                          false_negatives |-> done.false_negatives,
                          true_negatives  |-> done.true_negatives,
                          predicted_dependencies |-> done.predicted_dependencies]]

\* evaluate(triple, predictions, limited_to=...): an out-of-range node index
\* at a predicted edge raises IndexError
evaluate(h, t, preds, limited) ==
    LET g    == h[t.test_graph]
        done == EvalLoop(g, preds, limited, EvalLen(g, preds))
    IN  IF ~done.ok
        THEN [NoEvaluation EXCEPT !.error = "IndexError"]
        ELSE [ok |-> TRUE, error |-> "none",
              project   |-> t.project,
              version_1 |-> t.version_1,
              version_2 |-> t.version_2,
              version_3 |-> t.version_3,
              output |-> [true_positives  |-> done.true_positives,
                          false_positives |-> done.false_positives,
                          false_negatives |-> done.false_negatives,
                          true_negatives  |-> done.true_negatives,
                          predicted_dependencies |-> done.predicted_dependencies]]

----------------------------------------------------------------------------
(* The serialized artifacts the runs start from *)

AllNames == <<"pkg.a", "pkg.b", "pkg.c", "pkg.d", "pkg.e">>
Names(n) == SubSeq(AllNames, 1, n)

EdgeTypes == {"Uses", "Extends"}

Pairs == (0..MaxIdx) \X (0..MaxIdx)

MkGraph(nodes, edges, el, directed) ==
    [nodes |-> nodes, edges |-> edges, hierarchies |-> <<"root">>,
     edge_labels |-> el, directed |-> directed, classes |-> <<"cls">>]

MkDoc(project, magic, train, test) ==
    [project |-> project, version_1 |-> "1.0", version_2 |-> "1.1",
     version_3 |-> "1.2", training_graph |-> train, test_graph |-> test,
     metadata |-> [only_common_nodes_for_training |-> TRUE,
                   gnn_safe |-> TRUE, magic_number |-> magic]]

BothWays == [edges |-> <<<<0, 1>>, <<1, 0>>>>, labels |-> <<FALSE, TRUE>>]
OneWayFalse == [edges |-> <<<<0, 1>>>>, labels |-> <<FALSE>>]
SomeEdges ==
    <<[from |-> 0, to |-> 1, edge_type |-> "Uses"],
      [from |-> 1, to |-> 0, edge_type |-> "Extends"]>>

SmallGraphs ==
    {MkGraph(Names(MaxIdx + 1), SomeEdges, el, d) :
        el \in {BothWays, OneWayFalse}, d \in BOOLEAN}

\* every edge_labels the schema admits within the bounds: the two lists are
\* independent, so their lengths may differ
LabelFiles ==
    {MkDoc(Some("proj"), Some(MagicNumber),
           MkGraph(Names(MaxIdx + 1), SomeEdges, BothWays, TRUE),
           MkGraph(Names(MaxIdx + 1), SomeEdges,
                   [edges |-> e, labels |-> l], TRUE)) :
        e \in SeqsUpTo(Pairs, MaxLabelled), l \in SeqsUpTo(BOOLEAN, MaxLabelled)}

\* every structural edge list within the bounds
EdgeFiles ==
    {MkDoc(Some("proj"), Some(MagicNumber),
           MkGraph(Names(MaxIdx + 1), SomeEdges, BothWays, TRUE),
           MkGraph(Names(MaxIdx + 1), e, el, d)) :
        e \in SeqsUpTo([from : 0..MaxIdx, to : 0..MaxIdx, edge_type : EdgeTypes],
                       MaxEdges),
        el \in {BothWays, OneWayFalse}, d \in BOOLEAN}

\* directed and undirected training and test graphs, in every combination
GraphFiles ==
    {MkDoc(Some("proj"), Some(MagicNumber), train, test) :
        train \in SmallGraphs, test \in SmallGraphs}

\* documents with a null project or magic number, other magic numbers, and
\* node lists shorter than the edge indices need
MetaFiles ==
    {MkDoc(project, magic,
           MkGraph(Names(MaxIdx + 1), SomeEdges, BothWays, TRUE),
           MkGraph(Names(n), SomeEdges, el, d)) :
        project \in {None, Some("proj")},
        magic \in {None, Some(0), Some(MagicNumber), Some(MagicNumber + 1)},
        n \in {1, MaxIdx + 1}, el \in {BothWays, OneWayFalse}, d \in BOOLEAN}

ProjectionFiles == LabelFiles \cup EdgeFiles \cup GraphFiles \cup MetaFiles

\* edges of the evaluation runs: the node list has two entries, so <<1, 2>>
\* has an index outside it
EvalPairs == {<<0, 1>>, <<1, 0>>, <<1, 2>>}

EvalFiles ==
    {MkDoc(Some("proj"), Some(MagicNumber),
           MkGraph(Names(2), SomeEdges, BothWays, FALSE),
           MkGraph(Names(2), SomeEdges, [edges |-> e, labels |-> l], d)) :
        e \in SeqsUpTo(EvalPairs, MaxEvalEdges),
        l \in SeqsUpTo(BOOLEAN, MaxEvalEdges), d \in BOOLEAN}

\* limited_to only matters through the membership of the graph's own edges
Limits(g) ==
    {NoLimit} \cup {[given |-> TRUE, edges |-> s] :
                        s \in SUBSET Range(g.edge_labels.edges)}

----------------------------------------------------------------------------
(* The package graph of replication/compute_network_metrics.py             *)
(*                                                                         *)
(* A dotted name is the sequence of its segments: "java.util.List" is      *)
(* <<"java", "util", "List">>, so that split('.') and '.'.join are the     *)
(* identity on the representation and [:-1] is a real operation.           *)

\* '.'.join(node.split('.')[:-1])
Namespace(name) == SubSeq(name, 1, Len(name) - 1)

\* z.startswith(('java.', 'javax.', 'sun.')): the first segment is one of
\* the three and a dot follows it
is_ignored(z) == Len(z) >= 2 /\ z[1] \in {"java", "javax", "sun"}

\* the (target, edge_type) list that the setdefault(...).append(...) calls
\* leave under one (source, source_type) key, over the first k types
RECURSIVE DependsOnList(_, _, _)
DependsOnList(types, key, k) ==
    IF k = 0
    THEN <<>>
    ELSE LET t == types[k]
             before == DependsOnList(types, key, k - 1)
         IN  IF <<t.name, t.classification>> = key
             THEN before \o [i \in 1..Len(t.depends_on) |->
                                <<t.depends_on[i].name,
                                  t.depends_on[i].classification>>]
             ELSE before

\* the dict `nodes` of from_xml: a key exists once a depends-on was appended
ClassDiagram(types) ==
    LET keys == {<<types[k].name, types[k].classification>> :
                    k \in {i \in 1..Len(types) : Len(types[i].depends_on) > 0}}
    IN  [key \in keys |-> DependsOnList(types, key, Len(types))]

\* the (src_cls, to_cls) pairs that _lift_to_packages puts in package_diagram
LiftedPairs(cls_diagram) ==
    UNION {{<<Namespace(key[1]), Namespace(cls_diagram[key][i][1])>> :
               i \in 1..Len(cls_diagram[key])} :
           key \in DOMAIN cls_diagram}

\* _lift_to_packages: package_diagram.setdefault(src_cls, set()).add(to_cls)
lift_to_packages(cls_diagram) ==
    LET pairs == LiftedPairs(cls_diagram)
    IN  [src_cls \in {p[1] : p \in pairs} |->
            {p[2] : p \in {q \in pairs : q[1] = src_cls}}]

\* a graph that keeps the direction of its edges
networkx_DiGraph(nodes, edges) ==
    [nodes |-> nodes,
     adj   |-> [n \in nodes |-> {m \in nodes : <<n, m>> \in edges}]]

\* networkx.Graph() after add_nodes_from(nodes) and add_edges_from(edges):
\* adjacency is symmetric, parallel edges collapse, and an edge (p, p) is
\* kept as a self-loop
networkx_Graph(nodes, edges) ==
    [nodes |-> nodes,
     adj   |-> [n \in nodes |->
                   {m \in nodes : <<n, m>> \in edges \/ <<m, n>> \in edges}]]

\* a constructor that takes only the keys of spec as nodes
GraphInitSourcesOnly(spec) ==
    LET nodes == DOMAIN spec
        edges == UNION {{<<node, edge>> : edge \in spec[node]} :
                           node \in DOMAIN spec}
    IN  [ok |-> TRUE, error |-> "none",
         nodes |-> nodes,
         edges |-> edges,
         graph |-> [nodes |-> nodes,
                    adj |-> [n \in nodes |->
                               {m \in nodes : <<n, m>> \in edges
                                                 \/ <<m, n>> \in edges}]],
         katz  |-> None,
         sim   |-> None]

\* Graph.__init__(spec)
Graph_init(spec) ==
    LET nodes == DOMAIN spec \cup UNION {spec[node] : node \in DOMAIN spec}
        edges == UNION {{<<node, edge>> : edge \in spec[node]} :
                           node \in DOMAIN spec}
    IN  [ok |-> TRUE, error |-> "none",
         nodes |-> nodes,
         edges |-> edges,
         graph |-> networkx_Graph(nodes, edges),
         katz  |-> None,        \* self._katz
         sim   |-> None]        \* self._sim

\* an outcome of from_xml that is an exception
NoPackageGraph(err) ==
    [ok |-> FALSE, error |-> err, nodes |-> {}, edges |-> {},
     graph |-> [nodes |-> {}, adj |-> <<>>], katz |-> None, sim |-> None]

\* a search that returns the first child with the tag
FindFirstTag(count) ==
    IF count = 0 THEN [ok |-> TRUE, found |-> FALSE]
    ELSE [ok |-> TRUE, found |-> TRUE]

\* _find_one_tag over `count` children with the tag: None for no child,
\* ValueError for a second one
find_one_tag(count) ==
    IF count = 0 THEN [ok |-> TRUE, found |-> FALSE]
    ELSE IF count = 1 THEN [ok |-> TRUE, found |-> TRUE]
    ELSE [ok |-> FALSE, found |-> FALSE]

\* Graph.from_xml(filename): iterating a missing tag (None) is a TypeError
Graph_from_xml(doc) ==
    LET context   == find_one_tag(doc.contexts)
        container == find_one_tag(doc.containers)
        bad       == {k \in 1..Len(doc.types) :
                         ~find_one_tag(doc.types[k].dependencies).found}
        first     == CHOOSE k \in bad : \A j \in bad : k <= j
    IN  IF ~context.ok THEN NoPackageGraph("ValueError")
        ELSE IF ~context.found THEN NoPackageGraph("TypeError")
        ELSE IF ~container.ok THEN NoPackageGraph("ValueError")
        ELSE IF ~container.found THEN NoPackageGraph("TypeError")
        ELSE IF bad # {}
        THEN IF find_one_tag(doc.types[first].dependencies).ok
             THEN NoPackageGraph("TypeError")
             ELSE NoPackageGraph("ValueError")
        ELSE Graph_init(lift_to_packages(ClassDiagram(doc.types)))

\* graph.neighbors(a)
neighbors(g, a) == g.graph.adj[a]

\* graph.degree(a): a self-loop counts twice
degree(g, a) ==
    Cardinality(g.graph.adj[a]) + (IF a \in g.graph.adj[a] THEN 1 ELSE 0)

\* networkx.common_neighbors(G, u, v): the nodes adjacent to both, u and v
\* themselves left out
common_neighbors(g, u, v) == (g.graph.adj[u] \cap g.graph.adj[v]) \ {u, v}

\* set(x) & set(y) of salton, sorensen and russel_rao
SharedNeighbours(g, a, b) == neighbors(g, a) \cap neighbors(g, b)

common_neighbours(g, a, b) == Cardinality(common_neighbors(g, a, b))

\* a salton index whose denominator is the larger of the two degrees
SaltonOverLargerDegree(g, a, b) ==
    LET dx == degree(g, a)
        dy == degree(g, b)
        larger == IF dx >= dy THEN dx ELSE dy
    IN  [num |-> Cardinality(SharedNeighbours(g, a, b)),
         den_squared |-> larger * larger]

\* len(z) / sqrt(dx * dy), kept as the numerator and the squared denominator
salton(g, a, b) ==
    [num |-> Cardinality(SharedNeighbours(g, a, b)),
     den_squared |-> degree(g, a) * degree(g, b)]

\* 2 * len(z) / (dx + dy), kept as numerator and denominator
sorensen(g, a, b) ==
    [num |-> 2 * Cardinality(SharedNeighbours(g, a, b)),
     den |-> degree(g, a) + degree(g, b)]

\* len(z) / len(self.graph.nodes), kept as numerator and denominator
russel_rao(g, a, b) ==
    [num |-> Cardinality(SharedNeighbours(g, a, b)),
     den |-> Cardinality(g.graph.nodes)]

\* an index summed over the neighbours of either node
AdamicAdarOverEitherNeighbours(g, a, b) ==
    LET terms == [w \in (neighbors(g, a) \cup neighbors(g, b)) \ {a, b} |->
                     degree(g, w)]
    IN  [ok |-> \A w \in DOMAIN terms : terms[w] # 1, log_of |-> terms]

\* networkx.adamic_adar_index: the sum of 1 / log(degree(w)) over the common
\* neighbours w, kept as the degrees summed over; log(1) = 0 is a
\* ZeroDivisionError
adamic_adar(g, a, b) ==
    LET terms == [w \in common_neighbors(g, a, b) |-> degree(g, w)]
    IN  [ok |-> \A w \in DOMAIN terms : terms[w] # 1, log_of |-> terms]

\* networkx.resource_allocation_index: the sum of 1 / degree(w) over the
\* common neighbours w, kept as the degrees summed over
resource_allocation(g, a, b) ==
    [one_over |-> [w \in common_neighbors(g, a, b) |-> degree(g, w)]]

\* beta of katz, in thousandths
Beta == 5

\* networkx.adjacency_matrix(self.graph), by node: a self-loop is a 1 on
\* the diagonal
adjacency_matrix(g) ==
    [i \in g.graph.nodes |->
        [j \in g.graph.nodes |-> IF j \in g.graph.adj[i] THEN 1 ELSE 0]]

\* inv(I - beta * adj.T) - I = beta * adj.T + beta^2 * adj.T^2 + ..., in
\* millionths, the series cut after its second term (what is left out is
\* below 1e-5 for the graphs of this model)
KatzMatrix(g) ==
    LET adj == adjacency_matrix(g)
        squared(i, j) ==
            Cardinality({k \in g.graph.nodes :
                            adj[k][i] = 1 /\ adj[j][k] = 1})
    IN  [i \in g.graph.nodes |->
            [j \in g.graph.nodes |->
                Beta * 1000 * adj[j][i] + Beta * Beta * squared(i, j)]]

\* 1e-4, the tolerance of the assertion of katz, in millionths
KatzTolerance == 100

Abs(n) == IF n < 0 THEN 0 - n ELSE n

\* a katz that inverts the matrix at every call
KatzRebuildsEveryCall(g, a, b) ==
    LET matrix == KatzMatrix(g)
    IN  [ok    |-> Abs(matrix[a][b] - matrix[b][a]) <= KatzTolerance,
         built |-> TRUE,
         graph |-> [g EXCEPT !.katz = Some(matrix)],
         value |-> matrix[a][b]]

\* a katz that returns the entry without comparing it with its mirror image
KatzCallWithoutAssertion(g, a, b, sim) ==
    LET matrix == IF g.katz = None THEN sim ELSE g.katz[1]
    IN  [ok    |-> TRUE,
         built |-> g.katz = None,
         graph |-> [g EXCEPT !.katz = Some(matrix)],
         value |-> matrix[a][b]]

\* katz(node_a, node_b), sim being what numpy.linalg.inv and fill_diagonal
\* yield if they are run: the matrix is built when self._katz is None; the
\* assertion compares the entry with its mirror image
katz_call(g, a, b, sim) ==
    LET matrix == IF g.katz = None THEN sim ELSE g.katz[1]
    IN  [ok    |-> Abs(matrix[a][b] - matrix[b][a]) <= KatzTolerance,
         built |-> g.katz = None,
         graph |-> [g EXCEPT !.katz = Some(matrix)],
         value |-> matrix[a][b]]

\* katz(node_a, node_b) with an inversion that is exact
katz(g, a, b) == katz_call(g, a, b, KatzMatrix(g))

\* networkx.simrank_similarity(self.graph): a node is as similar to itself
\* as can be; the other entries are kept as the pair they belong to
SimRankMatrix(g) ==
    [i \in g.graph.nodes |->
        [j \in g.graph.nodes |->
            IF i = j THEN <<"one">> ELSE <<"simrank", i, j>>]]

\* a sim_rank that does not keep the matrix
SimRankWithoutCache(g, a, b) ==
    [built |-> TRUE, graph |-> g, value |-> SimRankMatrix(g)[a][b]]

\* sim_rank(node_a, node_b): the matrix is built when self._sim is None
sim_rank(g, a, b) ==
    LET matrix == IF g.sim = None THEN SimRankMatrix(g) ELSE g.sim[1]
    IN  [built |-> g.sim = None,
         graph |-> [g EXCEPT !.sim = Some(matrix)],
         value |-> matrix[a][b]]


----------------------------------------------------------------------------
(* generate_metrics *)

\* semantic_map after the loop over df.rows: a later row with the key of an
\* earlier one replaces it; class1 and class2 are popped from the row
ReadSemanticMap(rows) ==
    LET keys == {<<rows[i].class1, rows[i].class2>> : i \in 1..Len(rows)}
        last(key) == CHOOSE i \in 1..Len(rows) :
                        /\ <<rows[i].class1, rows[i].class2>> = key
                        /\ \A j \in 1..Len(rows) :
                               <<rows[j].class1, rows[j].class2>> = key
                                   => j <= i
    IN  [key \in keys |-> [line |-> rows[last(key)].line]]

\* a pop that leaves the entry in the dict
DictPopKeepsEntry(dict, key) == dict

\* semantic_map.pop(key)
DictPop(dict, key) == [k \in DOMAIN dict \ {key} |-> dict[k]]

\* the dict data before the loops
NewData(g, order) ==
    [nodes |-> order,
     edges |-> {[from |-> key[1], to |-> key[2]] : key \in g.edges},
     link_features |-> <<>>,
     links_without_semantics |-> <<>>,
     links_without_topology |-> {}]

NoData ==
    [nodes |-> <<>>, edges |-> {}, link_features |-> <<>>,
     links_without_semantics |-> <<>>, links_without_topology |-> {}]

\* the eight topological features of one pair, in the order the dict
\* literal computes them; an exception leaves the matrices built before it
TopologicalFeatures(g, x, y) ==
    LET aa == adamic_adar(g, x, y)
        kz == katz(g, x, y)
        sr == sim_rank(kz.graph, x, y)
    IN  IF ~aa.ok
        THEN [ok |-> FALSE, error |-> "ZeroDivisionError", graph |-> g,
              katz_built |-> FALSE, sim_built |-> FALSE, value |-> <<>>]
        ELSE IF ~kz.ok
        THEN [ok |-> FALSE, error |-> "AssertionError", graph |-> kz.graph,
              katz_built |-> kz.built, sim_built |-> FALSE, value |-> <<>>]
        ELSE [ok |-> TRUE, error |-> "none", graph |-> sr.graph,
              katz_built |-> kz.built, sim_built |-> sr.built,
              value |-> <<[common_neighbours   |-> common_neighbours(g, x, y),
                           salton              |-> salton(g, x, y),
                           sorensen            |-> sorensen(g, x, y),
                           adamic_adar         |-> aa.log_of,
                           katz                |-> kz.value,
                           sim_rank            |-> sr.value,
                           russel_rao          |-> russel_rao(g, x, y),
                           resource_allocation |->
                               resource_allocation(g, x, y).one_over]>>]

\* a filter that looks at the first name of a key only
LeftChecksSourceOnly(dict) ==
    {key \in DOMAIN dict : ~is_ignored(key[1])}

\* links-without-topology: the keys left in semantic_map whose two names
\* are both not ignored
LeftWithoutTopology(dict) ==
    {key \in DOMAIN dict : ~is_ignored(key[1]) /\ ~is_ignored(key[2])}

----------------------------------------------------------------------------
(* Inputs of generate_metrics *)

\* the types an .odem document declares, in document order, and the names
\* its depends-on elements may have
DeclaredTypes == <<<<"app", "A">>, <<"app", "B">>, <<"lib", "C">>>>

TargetTypes == DeclaredTypes \o <<<<"java", "util", "List">>>>

MkOdem(contexts, containers, tags, depends) ==
    [contexts   |-> contexts,
     containers |-> containers,
     types |-> [k \in 1..Len(DeclaredTypes) |->
                  [name |-> DeclaredTypes[k],
                   classification |-> "class",
                   dependencies |-> tags,
                   depends_on |->
                       LET mine(t) == <<DeclaredTypes[k], t>> \in depends
                           names == SelectSeq(TargetTypes, mine)
                       IN  [i \in 1..Len(names) |->
                               [name |-> names[i],
                                classification |-> "uses"]]]]]

DependsOnPairs ==
    {<<DeclaredTypes[k], TargetTypes[i]>> :
        k \in 1..Len(DeclaredTypes), i \in 1..Len(TargetTypes)}
    \ {<<t, t>> : t \in Range(DeclaredTypes)}

\* well-formed documents with up to MaxDependsOn dependencies
OdemFiles ==
    {MkOdem(1, 1, 1, depends) :
        depends \in {d \in SUBSET DependsOnPairs :
                        Cardinality(d) <= MaxDependsOn}}

\* documents without, or with a second, context, container or dependencies
MalformedOdemFiles ==
    {MkOdem(contexts, containers, tags,
            {<<DeclaredTypes[1], DeclaredTypes[3]>>}) :
        contexts \in 0..2, containers \in 0..2, tags \in 0..2}

\* the namespace pairs the semantic feature file may have a row for
FeatureKeyOrder ==
    <<<<<<"app">>, <<"lib">>>>, <<<<"lib">>, <<"app">>>>,
      <<<<"app">>, <<"app">>>>,
      <<<<"app">>, <<"java", "util">>>>, <<<<"lib">>, <<"ext">>>>,
      <<<<"java", "util">>, <<"ext">>>>>>

FeatureKeys == Range(FeatureKeyOrder)

\* feature files of up to MaxFeatureRows rows, a key possibly on two rows;
\* the rows are taken in the order of FeatureKeyOrder, the dict read from
\* them being the same for every other order of the keys
FeatureFiles ==
    {[i \in 1..Len(at) |->
         [class1 |-> FeatureKeyOrder[at[i]][1],
          class2 |-> FeatureKeyOrder[at[i]][2],
          line   |-> i]] :
        at \in {s \in SeqsUpTo(1..Len(FeatureKeyOrder), MaxFeatureRows) :
                   \A i \in 1..Len(s), j \in 1..Len(s) :
                       i <= j => s[i] <= s[j]}}

\* the orders in which a set may be iterated
Orders(S) ==
    {order \in [1..Cardinality(S) -> S] :
        \A i, j \in 1..Cardinality(S) : order[i] = order[j] => i = j}

\* no method was called yet, no ProjectGraph constructed
NoQuery == [name |-> "none", args |-> <<>>, ok |-> TRUE, error |-> "none",
            value |-> <<>>]

NoProjectGraph == [features |-> <<>>, edges |-> {}, nodes |-> {}]

NoCalls ==
    /\ made_for = <<>>
    /\ project_graph = NoProjectGraph
    /\ query = NoQuery

\* generate_metrics before its first statement
NoLoop == [order |-> <<>>, x |-> 1, y |-> 1, visited |-> <<>>]

NotStarted ==
    /\ semantic_map = <<>>
    /\ graph = NoPackageGraph("none")
    /\ data = NoData
    /\ loop = NoLoop
    /\ bar = [total |-> 0, count |-> 0]
    /\ constructed = [katz |-> 0, sim |-> 0]
    /\ mpc = "start"
    /\ merror = "none"

----------------------------------------------------------------------------
(* The pipeline: load, optionally project, evaluate (models/dummy.py main) *)

InitWith(files) ==
    /\ file \in files
    /\ heap = <<>>
    /\ loaded = NoTriple
    /\ triple = NoTriple
    /\ error = "none"
    /\ pc = "start"
    /\ nproj = 0
    /\ predictions = <<>>
    /\ limited_to = NoLimit
    /\ evaluation = NoEvaluation
    /\ odem = MkOdem(1, 1, 1, {})
    /\ features = <<>>
    /\ NotStarted
    /\ NoCalls

Init == InitWith(ProjectionFiles)

InitEval == InitWith(EvalFiles)

Load ==
    /\ pc = "start"
    /\ LET r == VersionTriple_load_and_check(file)
       IN  /\ heap' = r.heap
           /\ loaded' = r.value
           /\ triple' = r.value
           /\ error' = r.error
           /\ pc' = IF r.ok THEN "loaded" ELSE "failed"
    /\ UNCHANGED <<file, nproj, predictions, limited_to, evaluation>>
    /\ UNCHANGED metricsVars
    /\ UNCHANGED callVars

Project ==
    /\ pc \in {"loaded", "projected"}
    /\ nproj < MaxProjections
    /\ LET r == VersionTriple_as_undirected_problem(heap, triple)
       IN  /\ heap' = r.heap
           /\ triple' = r.value
           /\ error' = r.error
           /\ pc' = IF r.ok THEN "projected" ELSE "failed"
    /\ nproj' = nproj + 1
    /\ UNCHANGED <<file, loaded, predictions, limited_to, evaluation>>
    /\ UNCHANGED metricsVars
    /\ UNCHANGED callVars

Evaluate ==
    /\ pc \in {"loaded", "projected"}
    /\ \E preds \in SeqsUpTo(BOOLEAN, MaxPredictions),
          lim \in Limits(heap[triple.test_graph]) :
          LET r == evaluate(heap, triple, preds, lim)
          IN  /\ predictions' = preds
              /\ limited_to' = lim
              /\ evaluation' = r
              /\ error' = r.error
              /\ pc' = IF r.ok THEN "evaluated" ELSE "failed"
    /\ UNCHANGED <<file, heap, loaded, triple, nproj>>
    /\ UNCHANGED metricsVars
    /\ UNCHANGED callVars

Next == Load \/ Project

Spec == Init /\ [][Next]_vars

NextEval == Load \/ Project \/ Evaluate

SpecEval == InitEval /\ [][NextEval]_vars

----------------------------------------------------------------------------
(* generate_metrics, statement by statement *)

InitMetrics ==
    /\ file = <<>>
    /\ heap = <<>>
    /\ loaded = NoTriple
    /\ triple = NoTriple
    /\ error = "none"
    /\ pc = "start"
    /\ nproj = 0
    /\ predictions = <<>>
    /\ limited_to = NoLimit
    /\ evaluation = NoEvaluation
    /\ odem \in OdemFiles \cup MalformedOdemFiles
    /\ features \in FeatureFiles
    /\ NotStarted
    /\ NoCalls

\* lines 34-51: the semantic table, the graph, the dict data and the total
\* of the progress bar; graph.nodes is a set, iterated in some order
Start ==
    /\ mpc = "start"
    /\ semantic_map' = ReadSemanticMap(features)
    /\ LET g == Graph_from_xml(odem)
           n == Cardinality(g.nodes)
       IN  IF g.ok
           THEN /\ graph' = g
                /\ \E order \in Orders(g.nodes) :
                      /\ data' = NewData(g, order)
                      /\ loop' = [NoLoop EXCEPT !.order = order]
                /\ bar' = [total |-> n * n - n, count |-> 0]
                /\ mpc' = "loop"
                /\ merror' = merror
           ELSE /\ mpc' = "failed"
                /\ merror' = g.error
                /\ UNCHANGED <<graph, data, loop, bar>>
    /\ UNCHANGED <<odem, features, constructed>>
    /\ UNCHANGED pipelineVars
    /\ UNCHANGED callVars

\* the pair the two for loops are at, and the position after it
LoopX == loop.order[loop.x]

LoopY == loop.order[loop.y]

InLoop == mpc = "loop" /\ loop.x <= Len(loop.order)

\* an outer loop that ends after its first node
AdvanceEndsAfterFirstNode(l) ==
    IF l.y < Len(l.order)
    THEN [l EXCEPT !.y = @ + 1]
    ELSE [l EXCEPT !.x = Len(l.order) + 1, !.y = 1]

\* an inner loop that stops one node early
AdvanceSkipsLastNode(l) ==
    IF l.y + 1 < Len(l.order)
    THEN [l EXCEPT !.y = @ + 1]
    ELSE [l EXCEPT !.x = @ + 1, !.y = 1]

Advance(l) ==
    IF l.y < Len(l.order)
    THEN [l EXCEPT !.y = @ + 1]
    ELSE [l EXCEPT !.x = @ + 1, !.y = 1]

Visit(l, x, y) == [Advance(l) EXCEPT !.visited = Append(@, <<x, y>>)]

\* lines 62-63: if x == y: continue
SamePair ==
    /\ InLoop
    /\ LoopX = LoopY
    /\ loop' = Advance(loop)
    /\ UNCHANGED <<odem, features, semantic_map, graph, data, bar,
                   constructed, mpc, merror>>
    /\ UNCHANGED pipelineVars
    /\ UNCHANGED callVars

\* lines 64-68: a pair without semantic features
PairWithoutSemantics ==
    /\ InLoop
    /\ LoopX # LoopY
    /\ <<LoopX, LoopY>> \notin DOMAIN semantic_map
    /\ data' = IF ~is_ignored(LoopX) /\ ~is_ignored(LoopY)
               THEN [data EXCEPT !.links_without_semantics =
                        Append(@, [from |-> LoopX, to |-> LoopY])]
               ELSE data
    /\ bar' = [bar EXCEPT !.count = @ + 1]
    /\ loop' = Visit(loop, LoopX, LoopY)
    /\ UNCHANGED <<odem, features, semantic_map, graph, constructed,
                   mpc, merror>>
    /\ UNCHANGED pipelineVars
    /\ UNCHANGED callVars

\* lines 69-85: a pair with semantic features
PairWithFeatures ==
    /\ InLoop
    /\ LoopX # LoopY
    /\ <<LoopX, LoopY>> \in DOMAIN semantic_map
    /\ LET f == TopologicalFeatures(graph, LoopX, LoopY)
       IN  /\ graph' = f.graph
           /\ constructed' =
                 [katz |-> constructed.katz + (IF f.katz_built THEN 1 ELSE 0),
                  sim  |-> constructed.sim + (IF f.sim_built THEN 1 ELSE 0)]
           /\ IF f.ok
              THEN /\ data' = [data EXCEPT !.link_features =
                                 Append(@,
                                   [from |-> LoopX, to |-> LoopY,
                                    topological_features |-> f.value[1],
                                    semantic_features |->
                                        semantic_map[<<LoopX, LoopY>>]])]
                   /\ semantic_map' = DictPop(semantic_map, <<LoopX, LoopY>>)
                   /\ bar' = [bar EXCEPT !.count = @ + 1]
                   /\ loop' = Visit(loop, LoopX, LoopY)
                   /\ UNCHANGED <<mpc, merror>>
              ELSE /\ mpc' = "failed"
                   /\ merror' = f.error
                   /\ UNCHANGED <<data, semantic_map, bar, loop>>
    /\ UNCHANGED <<odem, features>>
    /\ UNCHANGED pipelineVars
    /\ UNCHANGED callVars

\* lines 86-89: the semantic entries no pair consumed
Finish ==
    /\ mpc = "loop"
    /\ loop.x > Len(loop.order)
    /\ data' = [data EXCEPT !.links_without_topology =
                   LeftWithoutTopology(semantic_map)]
    /\ mpc' = "done"
    /\ UNCHANGED <<odem, features, semantic_map, graph, loop, bar,
                   constructed, merror>>
    /\ UNCHANGED pipelineVars
    /\ UNCHANGED callVars

NextMetrics ==
    Start \/ SamePair \/ PairWithoutSemantics \/ PairWithFeatures \/ Finish

SpecMetrics == InitMetrics /\ [][NextMetrics]_vars

----------------------------------------------------------------------------
(* Method calls on a Graph of compute_network_metrics.py *)

\* the vertices of the graphs the metrics are asked of
PathVertices == <<<<"A">>, <<"B">>, <<"C">>, <<"D">>>>

Position(v) == CHOOSE i \in 1..Len(PathVertices) : PathVertices[i] = v

\* the pairs (source, target) a package diagram is made of; a pair and its
\* reverse give the same undirected edge, so one of the two is taken
DiagramPairs ==
    {<<PathVertices[i], PathVertices[j]>> :
        i \in 1..Len(PathVertices), j \in 1..Len(PathVertices)} \cap
    {p \in Range(PathVertices) \X Range(PathVertices) :
        Position(p[1]) <= Position(p[2])}

\* the dict Graph.__init__ is given: source -> set of targets
MkDiagram(pairs) ==
    [src \in {p[1] : p \in pairs} |->
        {p[2] : p \in {q \in pairs : q[1] = src}}]

PackageDiagrams ==
    {MkDiagram(pairs) :
        pairs \in {P \in SUBSET DiagramPairs : Cardinality(P) <= MaxDiagramEdges}}

\* numpy.linalg.inv works in floating point: an entry of its result is off
\* the exact inverse by an error that grows with the condition number of
\* I - beta * adj.T (without limit as an eigenvalue of adj nears 1 / beta).
\* In millionths: none, one within the tolerance, one beyond it
RoundingErrors == {0, 1, KatzTolerance + 1}

\* the inverse with the error on the entries above the diagonal
Inexact(matrix, err) ==
    [i \in DOMAIN matrix |->
        [j \in DOMAIN matrix[i] |->
            matrix[i][j] + IF Position(i) < Position(j) THEN err ELSE 0]]

InitQueries ==
    /\ file = <<>>
    /\ heap = <<>>
    /\ loaded = NoTriple
    /\ triple = NoTriple
    /\ error = "none"
    /\ pc = "start"
    /\ nproj = 0
    /\ predictions = <<>>
    /\ limited_to = NoLimit
    /\ evaluation = NoEvaluation
    /\ odem = MkOdem(1, 1, 1, {})
    /\ features = <<>>
    /\ semantic_map = <<>>
    /\ graph \in {Graph_init(spec) : spec \in PackageDiagrams}
    /\ data = NoData
    /\ loop = NoLoop
    /\ bar = [total |-> 0, count |-> 0]
    /\ constructed = [katz |-> 0, sim |-> 0]
    /\ mpc = "start"
    /\ merror = "none"
    /\ NoCalls

\* graph.common_neighbours(a, b)
CommonNeighbours ==
    /\ \E a, b \in graph.graph.nodes :
          query' = [name  |-> "common_neighbours",
                    args  |-> <<a, b>>,
                    ok    |-> TRUE,
                    error |-> "none",
                    value |-> Some(common_neighbours(graph, a, b))]
    /\ UNCHANGED <<made_for, project_graph>>
    /\ UNCHANGED metricsVars
    /\ UNCHANGED pipelineVars

\* graph.salton(a, b): math.sqrt(dx * dy) is 0.0 when a degree is zero
Salton ==
    /\ \E a, b \in graph.graph.nodes :
          LET r == salton(graph, a, b)
          IN  query' = [name  |-> "salton",
                        args  |-> <<a, b>>,
                        ok    |-> r.den_squared > 0,
                        error |-> IF r.den_squared > 0
                                  THEN "none" ELSE "ZeroDivisionError",
                        value |-> IF r.den_squared > 0 THEN Some(r) ELSE None]
    /\ UNCHANGED <<made_for, project_graph>>
    /\ UNCHANGED metricsVars
    /\ UNCHANGED pipelineVars

\* graph.katz(a, b): self._katz is assigned before the assertion, so a call
\* that fails leaves the matrix behind
Katz ==
    /\ \E a, b \in graph.graph.nodes, err \in RoundingErrors :
          LET r == katz_call(graph, a, b, Inexact(KatzMatrix(graph), err))
          IN  /\ graph' = r.graph
              /\ query' = [name  |-> "katz",
                           args  |-> <<a, b>>,
                           ok    |-> r.ok,
                           error |-> IF r.ok THEN "none" ELSE "AssertionError",
                           value |-> IF r.ok THEN Some(r.value) ELSE None]
    /\ UNCHANGED <<made_for, project_graph>>
    /\ UNCHANGED <<odem, features, semantic_map, data, loop, bar,
                   constructed, mpc, merror>>
    /\ UNCHANGED pipelineVars

NextQueries == CommonNeighbours \/ Salton \/ Katz

SpecQueries == InitQueries /\ [][NextQueries]_vars

----------------------------------------------------------------------------
(* ProjectGraph of replication/learn.py *)

LearnNodes == {"p", "q"}

\* an item of data['link-features']: one feature stands for the vector read
\* in _FEATURE_ORDER; None is NaN, Some(n) a number
LinkFeatureItems ==
    [from : LearnNodes, to : LearnNodes, features : {<<None>>, <<Some(1)>>}]

GraphEdgeItems == [from : LearnNodes, to : LearnNodes]

ProjectFiles ==
    [link_features : SeqsUpTo(LinkFeatureItems, MaxLinkFeatures),
     edges         : SeqsUpTo(GraphEdgeItems, MaxGraphEdges)]

\* x if not math.isnan(x) else 0, over the features of an item
WithoutNaN(xs) == [i \in 1..Len(xs) |-> IF xs[i] = None THEN 0 ELSE xs[i][1]]

\* ProjectGraph.__init__: the features are keyed by (item['to'],
\* item['from']) and a later item replaces an earlier one of the same key;
\* an edge is kept when one of its two directions has features
ProjectGraph_init(json_data) ==
    LET items == json_data.link_features
        keys == {<<items[i].to, items[i].from>> : i \in 1..Len(items)}
        last(key) == CHOOSE i \in 1..Len(items) :
                        /\ <<items[i].to, items[i].from>> = key
                        /\ \A j \in (i + 1)..Len(items) :
                              <<items[j].to, items[j].from>> # key
        feats == [key \in keys |-> WithoutNaN(items[last(key)].features)]
        edges == {<<e.from, e.to>> :
                    e \in {d \in Range(json_data.edges) :
                              \/ <<d.from, d.to>> \in keys
                              \/ <<d.to, d.from>> \in keys}}
    IN  [features |-> feats,
         edges    |-> edges,
         nodes    |-> {e[1] : e \in edges} \cup {e[2] : e \in edges}]

\* feature_for_edge as it was before the reverse lookup was added
FeatureForEdgeForwardOnly(pg, e) ==
    IF e \in DOMAIN pg.features
    THEN [ok |-> TRUE, error |-> "none", value |-> Some(pg.features[e])]
    ELSE [ok |-> FALSE, error |-> "KeyError", value |-> None]

\* feature_for_edge(e)
feature_for_edge(pg, e) ==
    LET x == e[1]
        y == e[2]
    IN  IF <<x, y>> \in DOMAIN pg.features
        THEN [ok |-> TRUE, error |-> "none",
              value |-> Some(pg.features[<<x, y>>])]
        ELSE IF <<y, x>> \in DOMAIN pg.features
        THEN [ok |-> TRUE, error |-> "none",
              value |-> Some(pg.features[<<y, x>>])]
        ELSE [ok |-> FALSE, error |-> "ValueError", value |-> None]

\* has_edge(e)
has_edge(pg, e) ==
    LET x == e[1]
        y == e[2]
    IN  <<x, y>> \in pg.edges \/ <<y, x>> \in pg.edges

InitLearn ==
    /\ file = <<>>
    /\ heap = <<>>
    /\ loaded = NoTriple
    /\ triple = NoTriple
    /\ error = "none"
    /\ pc = "start"
    /\ nproj = 0
    /\ predictions = <<>>
    /\ limited_to = NoLimit
    /\ evaluation = NoEvaluation
    /\ odem = MkOdem(1, 1, 1, {})
    /\ features = <<>>
    /\ NotStarted
    /\ made_for = <<>>
    /\ project_graph \in {ProjectGraph_init(f) : f \in ProjectFiles}
    /\ query = NoQuery

\* project_graph.feature_for_edge(e)
FeatureForEdge ==
    /\ \E e \in LearnNodes \X LearnNodes :
          LET r == feature_for_edge(project_graph, e)
          IN  query' = [name  |-> "feature_for_edge",
                        args  |-> e,
                        ok    |-> r.ok,
                        error |-> r.error,
                        value |-> r.value]
    /\ UNCHANGED <<made_for, project_graph>>
    /\ UNCHANGED metricsVars
    /\ UNCHANGED pipelineVars

\* project_graph.has_edge(e)
HasEdge ==
    /\ \E e \in LearnNodes \X LearnNodes :
          query' = [name  |-> "has_edge",
                    args  |-> e,
                    ok    |-> TRUE,
                    error |-> "none",
                    value |-> Some(has_edge(project_graph, e))]
    /\ UNCHANGED <<made_for, project_graph>>
    /\ UNCHANGED metricsVars
    /\ UNCHANGED pipelineVars

NextLearn == FeatureForEdge \/ HasEdge

SpecLearn == InitLearn /\ [][NextLearn]_vars

----------------------------------------------------------------------------
(* The callers of evaluate: main of data-processing/svm.py and of           *)
(* data-processing/svm_time.py.  A feature vector is kept as the key        *)
(* (from name, to name) it is stored under.                                 *)

\* (graph.nodes[source].name, graph.nodes[target].name)
NamePair(g, edge) == <<g.nodes[edge[1] + 1], g.nodes[edge[2] + 1]>>

\* the keys the edges of a graph can be looked up by
KeysOf(g) ==
    {NamePair(g, g.edge_labels.edges[i]) :
        i \in {k \in 1..Len(g.edge_labels.edges) :
                  /\ HasNode(g, g.edge_labels.edges[k][1])
                  /\ HasNode(g, g.edge_labels.edges[k][2])}}

NoKept == [ok |-> TRUE, keep_edges |-> <<>>, keep_labels |-> <<>>]

\* svm.graph_to_data, keys being the keys of the feature maps of `indices`:
\* an edge without features is left out, with its label
RECURSIVE graph_to_data(_, _, _)
graph_to_data(g, keys, k) ==
    IF k = 0
    THEN NoKept
    ELSE LET acc  == graph_to_data(g, keys, k - 1)
             edge == g.edge_labels.edges[k]
             flag == g.edge_labels.labels[k]
         IN  IF ~acc.ok
             THEN acc
             ELSE IF ~(HasNode(g, edge[1]) /\ HasNode(g, edge[2]))
             THEN [acc EXCEPT !.ok = FALSE]
             ELSE IF NamePair(g, edge) \in keys
             THEN [acc EXCEPT !.keep_edges = Append(@, NamePair(g, edge)),
                              !.keep_labels = Append(@, flag)]
             ELSE acc

\* SVC.fit raises ValueError unless the labels hold two classes
Fits(labels) == TRUE \in Range(labels) /\ FALSE \in Range(labels)

\* model.predict(features).tolist(), classifier being the fitted model
Predict(classifier, feats) == [i \in 1..Len(feats) |-> classifier[feats[i]]]

CallerFails(err) ==
    [ok |-> FALSE, skipped |-> FALSE, error |-> err, predictions |-> <<>>,
     made_for |-> <<>>, limited_to |-> NoLimit, evaluation |-> NoEvaluation]

\* what a caller leaves once evaluate has been called
CallerEvaluates(h, t, preds, feats, limited) ==
    LET r == evaluate(h, t, preds, limited)
    IN  [ok |-> r.ok, skipped |-> FALSE, error |-> r.error,
         predictions |-> preds, made_for |-> feats,
         limited_to |-> limited, evaluation |-> r]

\* svm.main, the body of its loop after load_and_check: train_keys are the
\* keys of feature_map[0] and feature_map[1], test_keys those of
\* feature_map[2]
svm_main(h, t, train_keys, test_keys, classifier) ==
    LET train == h[t.training_graph]
        test  == h[t.test_graph]
        tr == graph_to_data(train, train_keys, ZipLen(train.edge_labels))
        te == graph_to_data(test, test_keys, ZipLen(test.edge_labels))
    IN  IF ~tr.ok THEN CallerFails("IndexError")
        ELSE IF ~Fits(tr.keep_labels) THEN CallerFails("ValueError")
        ELSE IF ~te.ok THEN CallerFails("IndexError")
        ELSE IF te.keep_edges = <<>> THEN CallerFails("ValueError")
        ELSE CallerEvaluates(h, t, Predict(classifier, te.keep_edges),
                             te.keep_edges, NoLimit)

NoDataset == [ok |-> TRUE, keys |-> <<>>, labels |-> <<>>, kept |-> {}]

\* the position of a key in the dict dataset
KeyIndex(keys, key) == CHOOSE i \in 1..Len(keys) : keys[i] = key

\* svm_time._build_dataset_base_from_metrics and _dict_dataset_to_numpy:
\* dataset is a dict, so a key met again keeps its place and takes the new
\* label; kept holds the edges, as index pairs
RECURSIVE build_dataset(_, _, _)
build_dataset(g, keys, k) ==
    IF k = 0
    THEN NoDataset
    ELSE LET acc   == build_dataset(g, keys, k - 1)
             edge  == g.edge_labels.edges[k]
             label == g.edge_labels.labels[k]
         IN  IF ~acc.ok
             THEN acc
             ELSE IF ~(HasNode(g, edge[1]) /\ HasNode(g, edge[2]))
             THEN [acc EXCEPT !.ok = FALSE]
             ELSE IF NamePair(g, edge) \notin keys
             THEN acc
             ELSE IF NamePair(g, edge) \in Range(acc.keys)
             THEN [acc EXCEPT
                      !.labels[KeyIndex(acc.keys, NamePair(g, edge))] = label,
                      !.kept = @ \cup {edge}]
             ELSE [acc EXCEPT !.keys = Append(@, NamePair(g, edge)),
                              !.labels = Append(@, label),
                              !.kept = @ \cup {edge}]

\* svm_time.main, the body of its loop over the triples: historical says
\* that co_change_data knows version_1; the training and the test data are
\* both data_for_version(triple_data.training_graph, ..., version_1)
svm_time_main(h, t, historical, keys, classifier) ==
    LET train == h[t.training_graph]
        ds == build_dataset(train, keys, ZipLen(train.edge_labels))
    IN  IF ~historical
        THEN [CallerFails("none") EXCEPT !.ok = TRUE, !.skipped = TRUE]
        ELSE IF ~ds.ok THEN CallerFails("IndexError")
        ELSE IF ~Fits(ds.labels) THEN CallerFails("ValueError")
        ELSE CallerEvaluates(h, t, Predict(classifier, ds.keys), ds.keys,
                             [given |-> TRUE, edges |-> ds.kept])

\* the state a caller leaves
Called(r) ==
    /\ predictions' = r.predictions
    /\ made_for' = r.made_for
    /\ limited_to' = r.limited_to
    /\ evaluation' = r.evaluation
    /\ error' = r.error
    /\ pc' = IF r.skipped THEN "skipped"
             ELSE IF r.ok THEN "evaluated" ELSE "failed"
    /\ UNCHANGED <<file, heap, loaded, triple, nproj>>
    /\ UNCHANGED metricsVars
    /\ UNCHANGED <<project_graph, query>>

SvmMain ==
    /\ pc = "loaded"
    /\ \E train_keys \in SUBSET KeysOf(heap[triple.training_graph]),
          test_keys \in SUBSET KeysOf(heap[triple.test_graph]) :
          \E classifier \in [test_keys -> BOOLEAN] :
              Called(svm_main(heap, triple, train_keys, test_keys, classifier))

SvmTimeMain ==
    /\ pc = "loaded"
    /\ \E historical \in BOOLEAN,
          keys \in SUBSET KeysOf(heap[triple.training_graph]) :
          \E classifier \in [keys -> BOOLEAN] :
              Called(svm_time_main(heap, triple, historical, keys, classifier))

NextSvm == Load \/ SvmMain \/ SvmTimeMain

SpecSvm == InitEval /\ [][NextSvm]_vars

----------------------------------------------------------------------------
(* Vocabulary of the properties *)

Roles == {"training_graph", "test_graph"}

\* the graph load_and_check returned, and the graph the pipeline holds now
In(role) == heap[loaded[role]]
Out(role) == heap[triple[role]]

Rev(e) == <<e[2], e[1]>>
Unordered(e) == {e[1], e[2]}
UnorderedPairs(edges, n) == {Unordered(edges[i]) : i \in 1..n}
NoDuplicatePair(edges) ==
    \A i, j \in 1..Len(edges) :
        Unordered(edges[i]) = Unordered(edges[j]) => i = j
EndPoints(edge) == <<edge.from, edge.to>>
StructuralPairs(edges) == {Unordered(EndPoints(edges[i])) : i \in 1..Len(edges)}

\* as_undirected_problem has returned a new graph for this role
Projected(role) == pc = "projected" /\ In(role).directed

\* each ordered pair is zipped with a label at most once
UniqueOrdered(el) ==
    \A i, j \in 1..ZipLen(el) : el.edges[i] = el.edges[j] => i = j

----------------------------------------------------------------------------
(* C1 *)

\* C1: in the projection of a directed EdgeLabels whose ordered pairs are
\* unique, a pair recorded in both directions is projected to exactly one
\* edge, and its label is label(u,v) OR label(v,u).
C1_LabelOrMerge ==
    \A role \in Roles :
        (Projected(role) /\ UniqueOrdered(In(role).edge_labels)) =>
            LET ein  == In(role).edge_labels
                eout == Out(role).edge_labels
            IN  \A i, j \in 1..ZipLen(ein) :
                    ein.edges[j] = Rev(ein.edges[i]) =>
                        \E k \in 1..Len(eout.edges) :
                            /\ Unordered(eout.edges[k]) = Unordered(ein.edges[i])
                            /\ \A m \in 1..Len(eout.edges) :
                                   Unordered(eout.edges[m]) = Unordered(ein.edges[i])
                                       => m = k
                            /\ eout.labels[k] = (ein.labels[i] \/ ein.labels[j])

\* a projected test graph whose labels held (0,1)=false and (1,0)=true
C1_Witness ==
    /\ Projected("test_graph")
    /\ In("test_graph").edge_labels =
           [edges |-> <<<<0, 1>>, <<1, 0>>>>, labels |-> <<FALSE, TRUE>>]
    /\ Out("test_graph").edge_labels =
           [edges |-> <<<<0, 1>>>>, labels |-> <<TRUE>>]

----------------------------------------------------------------------------
(* C2 *)

\* the first as_undirected_problem call has returned or raised
ProjectionTried == nproj >= 1 /\ pc \in {"projected", "failed"}

\* C2: whenever a directed graph's edge_labels records a pair in one
\* direction only, the projection succeeds and the projected edge carries
\* exactly the boolean recorded for that direction.
C2_OneDirectionKept ==
    \A role \in Roles :
        (ProjectionTried /\ In(role).directed) =>
            LET ein == In(role).edge_labels
            IN  \A i \in 1..ZipLen(ein) :
                    (\A j \in 1..ZipLen(ein) :
                         /\ ein.edges[j] # Rev(ein.edges[i])
                         /\ (ein.edges[j] = ein.edges[i] => j = i)) =>
                        /\ pc = "projected"
                        /\ \E k \in 1..Len(Out(role).edge_labels.edges) :
                               /\ Out(role).edge_labels.edges[k] = ein.edges[i]
                               /\ Out(role).edge_labels.labels[k] = ein.labels[i]

----------------------------------------------------------------------------
(* C3 *)

----------------------------------------------------------------------------
(* C4 *)

\* C4: as_undirected_problem returns an undirected graph itself, unchanged,
\* so a second projection of a triple changes nothing.
C4_Idempotent ==
    [][pc' = "projected" =>
          /\ \A role \in Roles :
                 ~heap[triple[role]].directed =>
                     /\ triple'[role] = triple[role]
                     /\ heap'[triple'[role]] = heap[triple[role]]
          /\ pc = "projected" => (triple' = triple /\ heap' = heap)]_vars

\* a directed test graph has been projected twice
C4_Witness ==
    /\ pc = "projected"
    /\ nproj = 2
    /\ In("test_graph").directed
    /\ Out("test_graph").edges # In("test_graph").edges

----------------------------------------------------------------------------
(* C5 *)

\* C5: the EdgeLabels built by as_undirected_problem has as many labels as
\* edges, also for an input whose lists differ in length, and its i-th label
\* is a label the input records for the i-th edge's pair.
C5_AlignedOutput ==
    \A role \in Roles :
        Projected(role) =>
            LET ein  == In(role).edge_labels
                eout == Out(role).edge_labels
            IN  /\ Len(eout.edges) = Len(eout.labels)
                /\ \A k \in 1..Len(eout.edges) :
                       \E i \in 1..ZipLen(ein) :
                           /\ Unordered(ein.edges[i]) = Unordered(eout.edges[k])
                           /\ ein.labels[i] = eout.labels[k]

\* a projected input with more labels than edges
C5_Witness ==
    /\ Projected("test_graph")
    /\ Len(In("test_graph").edge_labels.edges) = 1
    /\ Len(In("test_graph").edge_labels.labels) = 2
    /\ Len(Out("test_graph").edge_labels.edges) = 1

----------------------------------------------------------------------------
(* C6 *)

\* C6: a projection leaves every existing Graph object and the loaded triple
\* as they were; the triple it returns has undirected graphs with the
\* input's nodes, hierarchies and classes, and the input's project, versions
\* and metadata.
C6_InputUntouched ==
    [][pc' = "projected" =>
          /\ \A id \in 1..Len(heap) : heap'[id] = heap[id]
          /\ loaded' = loaded
          /\ \A role \in Roles :
                 /\ ~heap'[triple'[role]].directed
                 /\ heap'[triple'[role]].nodes = heap[triple[role]].nodes
                 /\ heap'[triple'[role]].hierarchies = heap[triple[role]].hierarchies
                 /\ heap'[triple'[role]].classes = heap[triple[role]].classes
          /\ triple'.project = triple.project
          /\ triple'.version_1 = triple.version_1
          /\ triple'.version_2 = triple.version_2
          /\ triple'.version_3 = triple.version_3
          /\ triple'.metadata = triple.metadata
          /\ triple'.metadata.magic_number = MagicNumber]_vars

\* a directed input was projected to a new, different graph
C6_Witness ==
    /\ Projected("test_graph")
    /\ Projected("training_graph")
    /\ Len(heap) = 4
    /\ Out("test_graph") # In("test_graph")
    /\ In("test_graph").directed

----------------------------------------------------------------------------
(* C7 *)

LoadTried == pc # "start"
LoadFailed == pc = "failed" /\ nproj = 0

\* C7: load_and_check returns a triple exactly when the document matches
\* the schema and its magic number is 0x00010101; a schema mismatch is a
\* ValidationError whatever the magic number, any other magic number a
\* ValueError, and nothing else (such as an edge index outside the node
\* list) fails the load.
C7_LoadOutcome ==
    LoadTried =>
        /\ ~LoadFailed <=>
               (SchemaMatches(file) /\ file.metadata.magic_number = Some(65793))
        /\ ~SchemaMatches(file) => (LoadFailed /\ error = "ValidationError")
        /\ (SchemaMatches(file) /\ file.metadata.magic_number # Some(65793))
               => (LoadFailed /\ error = "ValueError")
        /\ ~LoadFailed =>
               /\ loaded.metadata.magic_number = 65793
               /\ heap[loaded.test_graph] = file.test_graph
               /\ heap[loaded.training_graph] = file.training_graph

\* a load that succeeded on a graph whose edges name a node index outside
\* its node list
C7_Witness ==
    /\ pc = "loaded"
    /\ \E i \in 1..Len(In("test_graph").edge_labels.edges) :
           In("test_graph").edge_labels.edges[i][2] >= Len(In("test_graph").nodes)

----------------------------------------------------------------------------
(* C8, C9, C10: evaluate *)

\* the graph the last evaluate call scored
Scored == heap[triple.test_graph]

\* the zipped positions evaluate did not skip
ScoredPositions ==
    {i \in 1..Len(Scored.edge_labels.edges) :
        /\ i <= Len(Scored.edge_labels.labels)
        /\ i <= Len(predictions)
        /\ limited_to.given => Scored.edge_labels.edges[i] \in limited_to.edges}

Counted ==
    evaluation.output.true_positives + evaluation.output.false_positives
        + evaluation.output.false_negatives + evaluation.output.true_negatives

\* C8: the four counters returned by evaluate add up to the number of scored
\* edges: the edges zipped with a label and a prediction that limited_to,
\* when given, contains.
C8_CountersAddUp ==
    pc = "evaluated" => Counted = Cardinality(ScoredPositions)

\* an evaluation under limited_to that skipped one edge and scored another
C8_Witness ==
    /\ pc = "evaluated"
    /\ limited_to.given
    /\ Len(predictions) = 2
    /\ Len(Scored.edge_labels.edges) = 2
    /\ Len(Scored.edge_labels.labels) = 2
    /\ Cardinality(ScoredPositions) = 1
    /\ Counted = 1

\* C9 as stated: predicted_dependencies has as many entries as the
\* predictions sequence has true values, with or without limited_to; taken
\* on the calls whose edges, labels and predictions have one length, where
\* zip truncates nothing.
C9_PredictedEqualsAllTrue ==
    (/\ pc = "evaluated"
     /\ Len(predictions) = Len(Scored.edge_labels.edges)
     /\ Len(predictions) = Len(Scored.edge_labels.labels)) =>
        Len(evaluation.output.predicted_dependencies)
            = Cardinality({i \in 1..Len(predictions) : predictions[i]})

\* C9, amended: predicted_dependencies has as many entries as there are true
\* predictions at scored edges (edges zipped with a label and a prediction
\* and, when limited_to is given, members of it).
C9_PredictedEqualsScoredTrue ==
    pc = "evaluated" =>
        Len(evaluation.output.predicted_dependencies)
            = Cardinality({i \in ScoredPositions : predictions[i]})

\* an aligned evaluation whose limited_to left out an edge predicted true
C9_Witness ==
    /\ pc = "evaluated"
    /\ limited_to.given
    /\ Len(predictions) = Len(Scored.edge_labels.edges)
    /\ Len(predictions) = Len(Scored.edge_labels.labels)
    /\ \E i \in 1..Len(predictions) : predictions[i] /\ i \notin ScoredPositions
    /\ \E i \in ScoredPositions : predictions[i]

\* C10: evaluate does not return a result when the predictions and the test
\* graph's labels differ in length.
C10_LengthMismatchFails ==
    pc = "evaluated" => Len(predictions) = Len(Scored.edge_labels.labels)

----------------------------------------------------------------------------
(* Properties of the package graph and of generate_metrics *)

\* generate_metrics has built its graph
GraphBuilt == mpc \in {"loop", "done"}

\* the class-level dependencies of the document: (source type, target type)
ClassDependencies ==
    UNION {{<<odem.types[k].name, odem.types[k].depends_on[i].name>> :
               i \in 1..Len(odem.types[k].depends_on)} :
           k \in 1..Len(odem.types)}

\* p is the name t without its last segment
Owns(p, t) ==
    /\ Len(t) = Len(p) + 1
    /\ \A i \in 1..Len(p) : t[i] = p[i]

\* the namespaces that occur in the class-level dependencies
DependencyNamespaces ==
    {p \in {SubSeq(t, 1, n) : t \in Range(TargetTypes), n \in 0..2} :
        \E d \in ClassDependencies : Owns(p, d[1]) \/ Owns(p, d[2])}

\* C12: the package graph has no self-loop: no (p, p) in the edge set and
\* no vertex adjacent to itself in the networkx graph, also when a type
\* depends on a type of its own namespace.
C12_NoSelfLoop ==
    GraphBuilt =>
        \A p \in graph.nodes :
            <<p, p>> \notin graph.edges /\ p \notin graph.graph.adj[p]

\* C13 as stated: the edges reported as 'edges' never hold a pair of
\* namespaces in both directions.
C13_OneEntryPerUnorderedPair ==
    GraphBuilt =>
        \A e \in data.edges :
            e.from # e.to => [from |-> e.to, to |-> e.from] \notin data.edges

\* C13, amended: 'edges' holds one entry for every ordered pair of
\* namespaces (p, q) such that a type of p depends on a type of q, whatever
\* the number of such dependencies, and so holds both (p, q) and (q, p) when
\* there are dependencies both ways; direction is discarded in the networkx
\* graph only, where p and q are adjacent when (p, q) or (q, p) is an edge.
C13_DirectionKeptInEdges ==
    GraphBuilt =>
        /\ data.edges =
              {e \in [from : graph.nodes, to : graph.nodes] :
                  \E d \in ClassDependencies :
                      Owns(e.from, d[1]) /\ Owns(e.to, d[2])}
        /\ \A p \in graph.nodes, q \in graph.nodes :
              q \in graph.graph.adj[p] <=>
                  \/ [from |-> p, to |-> q] \in data.edges
                  \/ [from |-> q, to |-> p] \in data.edges

\* two types of one namespace that depend on a type of another, which
\* depends on one of them
C13_Witness ==
    /\ GraphBuilt
    /\ [from |-> <<"app">>, to |-> <<"lib">>] \in data.edges
    /\ [from |-> <<"lib">>, to |-> <<"app">>] \in data.edges
    /\ Cardinality(ClassDependencies) = 2
    /\ <<"lib">> \in graph.graph.adj[<<"app">>]

\* C14: a namespace is a vertex exactly when it owns the source or the
\* target of a class-level dependency; every vertex has a degree of at
\* least one, and a type without dependencies adds no vertex.
C14_VertexRule ==
    GraphBuilt =>
        /\ graph.nodes = DependencyNamespaces
        /\ graph.graph.nodes = graph.nodes
        /\ Range(data.nodes) = graph.nodes
        /\ \A p \in graph.nodes : degree(graph, p) >= 1

\* a document in which lib.C has no dependency and is nobody's target, and
\* java.util is a vertex only as a target
C14_Witness ==
    /\ GraphBuilt
    /\ graph.nodes = {<<"app">>, <<"java", "util">>}
    /\ \A d \in ClassDependencies : d[1] # <<"lib", "C">> /\ d[2] # <<"lib", "C">>
    /\ Cardinality(ClassDependencies) = 2

\* the ordered pairs of distinct vertices
DistinctPairs ==
    {pair \in graph.nodes \X graph.nodes : pair[1] # pair[2]}

\* the semantic table as read from the feature file
InitialTable == ReadSemanticMap(features)

\* the pairs that have a link-features record, and those listed as
\* links-without-semantics
FeaturePairs ==
    {<<data.link_features[i].from, data.link_features[i].to>> :
        i \in 1..Len(data.link_features)}

WithoutSemanticsPairs ==
    {<<data.links_without_semantics[i].from,
       data.links_without_semantics[i].to>> :
        i \in 1..Len(data.links_without_semantics)}

\* C15: the sweep visits every ordered pair of distinct vertices exactly
\* once, n * n - n pairs for n vertices, calls progress() once for each of
\* them and never handles a pair (x, x); it does not fail on the way.
C15_EveryPairOnce ==
    /\ mpc = "failed" => loop = NoLoop
    /\ GraphBuilt =>
          /\ bar.total = Cardinality(graph.nodes) * Cardinality(graph.nodes)
                            - Cardinality(graph.nodes)
          /\ bar.count = Len(loop.visited)
          /\ \A i \in 1..Len(loop.visited) :
                /\ loop.visited[i][1] # loop.visited[i][2]
                /\ \A j \in 1..Len(loop.visited) :
                      loop.visited[i] = loop.visited[j] => i = j
          /\ mpc = "done" =>
                /\ Range(loop.visited) = DistinctPairs
                /\ bar.count = bar.total

\* a finished sweep over three vertices
C15_Witness ==
    /\ mpc = "done"
    /\ Cardinality(graph.nodes) = 3
    /\ bar.count = 6
    /\ Len(data.link_features) > 0

\* C16: every visited pair has exactly one outcome. It has a link-features
\* record iff the semantic table had an entry keyed by it; the record holds
\* that entry, which is then gone from the table, and no other record is
\* made for the pair. It is listed in links-without-semantics iff the table
\* had no such entry and neither name starts with java., javax. or sun. .
\* Otherwise it is dropped.
C16_Routing ==
    GraphBuilt =>
        /\ \A pair \in Range(loop.visited) :
              /\ pair \in FeaturePairs <=> pair \in DOMAIN InitialTable
              /\ pair \in WithoutSemanticsPairs <=>
                    /\ pair \notin DOMAIN InitialTable
                    /\ ~is_ignored(pair[1])
                    /\ ~is_ignored(pair[2])
        /\ FeaturePairs \cup WithoutSemanticsPairs \subseteq Range(loop.visited)
        /\ FeaturePairs \cap WithoutSemanticsPairs = {}
        /\ Len(data.link_features) = Cardinality(FeaturePairs)
        /\ Len(data.links_without_semantics)
              = Cardinality(WithoutSemanticsPairs)
        /\ \A i \in 1..Len(data.link_features) :
              LET record == data.link_features[i]
              IN  /\ record.semantic_features
                        = InitialTable[<<record.from, record.to>>]
                  /\ <<record.from, record.to>> \notin DOMAIN semantic_map

\* a finished sweep with a record, a pair without semantics and a dropped
\* pair
C16_Witness ==
    /\ mpc = "done"
    /\ <<<<"app">>, <<"lib">>>> \in FeaturePairs
    /\ <<<<"lib">>, <<"app">>>> \in WithoutSemanticsPairs
    /\ <<<<"lib">>, <<"java", "util">>>> \in Range(loop.visited)
    /\ <<<<"lib">>, <<"java", "util">>>> \notin WithoutSemanticsPairs
    /\ Len(data.link_features) = 1

\* C17 as stated: links-without-topology is the set of the keys of the
\* initial semantic table that no link-features record used.
C17_EveryUnusedKeyReported ==
    mpc = "done" =>
        data.links_without_topology = DOMAIN InitialTable \ FeaturePairs

\* C17, amended: links-without-topology is the set of the keys of the
\* initial semantic table that no link-features record used and of which
\* neither name starts with java., javax. or sun. .
C17_UnusedKeysNotIgnored ==
    mpc = "done" =>
        data.links_without_topology =
            {key \in DOMAIN InitialTable \ FeaturePairs :
                ~is_ignored(key[1]) /\ ~is_ignored(key[2])}

\* a finished sweep over a graph that used neither key of the table,
\* reported one and left out the one that starts with an ignored name
C17_Witness ==
    /\ mpc = "done"
    /\ Cardinality(graph.nodes) >= 2
    /\ DOMAIN InitialTable
          = {<<<<"lib">>, <<"ext">>>>, <<<<"java", "util">>, <<"ext">>>>}
    /\ FeaturePairs = {}
    /\ data.links_without_topology = {<<<<"lib">>, <<"ext">>>>}

\* C18: over the katz() and sim_rank() queries made on one Graph object each
\* of the two matrices is constructed at most once, by the first query that
\* needs it, and is never reassigned or modified afterwards.
C18_MatricesBuiltOnce ==
    [][/\ constructed'.katz <= 1
       /\ constructed'.sim <= 1
       /\ graph.katz # None =>
             graph'.katz = graph.katz /\ constructed'.katz = constructed.katz
       /\ graph.sim # None =>
             graph'.sim = graph.sim /\ constructed'.sim = constructed.sim
       /\ Len(data'.link_features) > Len(data.link_features) =>
             /\ graph'.katz # None
             /\ graph'.sim # None
             /\ graph.katz = None => constructed'.katz = constructed.katz + 1
             /\ graph.sim = None => constructed'.sim = constructed.sim + 1
      ]_vars

\* two pairs were queried on one graph
C18_Witness ==
    /\ Len(data.link_features) = 2
    /\ constructed = [katz |-> 1, sim |-> 1]
    /\ graph.katz # None
    /\ graph.sim # None

\* C19 as stated: both matrices exist once the first pair of the pairwise
\* loop has been processed.
C19_BuiltBeforeFirstPair ==
    (GraphBuilt /\ Len(loop.visited) > 0) =>
        graph.katz # None /\ graph.sim # None

\* C19, amended: the two matrices are constructed inside the pairwise loop,
\* while the first pair that has a semantic entry is processed: they exist
\* exactly when a link-features record has been made, so not while only
\* pairs without semantic entry have been processed, and never when no pair
\* has one.
C19_BuiltWithFirstRecord ==
    GraphBuilt =>
        /\ graph.katz # None <=> Len(data.link_features) > 0
        /\ graph.sim # None <=> Len(data.link_features) > 0

\* the matrices were built for the second pair the loop processed
C19_Witness ==
    /\ GraphBuilt
    /\ Len(loop.visited) = 2
    /\ loop.visited[1] \notin FeaturePairs
    /\ loop.visited[2] \in FeaturePairs
    /\ graph.katz # None
    /\ graph.sim # None

\* C20: for every pair of distinct vertices of a graph the builder made,
\* common_neighbours is the size of the set that salton, sorensen and
\* russel_rao intersect for their numerator.
C20_CommonNeighboursIsSharedCount ==
    GraphBuilt =>
        \A pair \in DistinctPairs :
            /\ common_neighbours(graph, pair[1], pair[2])
                  = salton(graph, pair[1], pair[2]).num
            /\ 2 * common_neighbours(graph, pair[1], pair[2])
                  = sorensen(graph, pair[1], pair[2]).num
            /\ common_neighbours(graph, pair[1], pair[2])
                  = russel_rao(graph, pair[1], pair[2]).num

----------------------------------------------------------------------------
(* Order and orientation of the projection; the counters of evaluate *)

\* the k-th smallest member of a set of positions
Nth(S, k) == CHOOSE i \in S : Cardinality({j \in S : j <= i}) = k

\* the positions of the labelled edges of a graph that are zipped with a
\* label and are the first of their unordered pair
FirstOfPair(g) ==
    {i \in 1..Len(g.edge_labels.edges) :
        /\ i <= Len(g.edge_labels.labels)
        /\ \A j \in 1..(i - 1) :
              Unordered(g.edge_labels.edges[j]) # Unordered(g.edge_labels.edges[i])}

\* C23: the projected edge_labels.edges is a subsequence of the input list:
\* the edges that are the first of their unordered pair, each as it was
\* written (from, to), in the order they had.
C23_FirstEncounterOrder ==
    \A role \in Roles :
        Projected(role) =>
            /\ Len(Out(role).edge_labels.edges) = Cardinality(FirstOfPair(In(role)))
            /\ \A k \in 1..Len(Out(role).edge_labels.edges) :
                  Out(role).edge_labels.edges[k]
                      = In(role).edge_labels.edges[Nth(FirstOfPair(In(role)), k)]

\* a projection that kept (1, 0) as written and dropped a later (0, 1)
C23_Witness ==
    \E role \in Roles :
        /\ Projected(role)
        /\ Len(In(role).edge_labels.edges) = 2
        /\ In(role).edge_labels.edges[1] = <<1, 0>>
        /\ In(role).edge_labels.edges[2] = <<0, 1>>
        /\ Out(role).edge_labels.edges = <<<<1, 0>>>>

\* the positions of the structural edges of a graph that are the first of
\* their unordered pair
FirstStructural(g) ==
    {i \in 1..Len(g.edges) :
        \A j \in 1..(i - 1) :
            Unordered(EndPoints(g.edges[j])) # Unordered(EndPoints(g.edges[i]))}

\* C24: every edge kept in the projected Graph.edges has the from, the to
\* and the edge_type of the first input edge of its unordered pair.
C24_KeepsDirection ==
    \A role \in Roles :
        Projected(role) =>
            /\ Len(Out(role).edges) = Cardinality(FirstStructural(In(role)))
            /\ \A k \in 1..Len(Out(role).edges) :
                  Out(role).edges[k]
                      = In(role).edges[Nth(FirstStructural(In(role)), k)]

\* the scored positions with a given truth and prediction
ScoredAs(truth, pred) ==
    {i \in ScoredPositions :
        Scored.edge_labels.labels[i] = truth /\ predictions[i] = pred}

\* the scored positions predicted true
ScoredTrue == {i \in ScoredPositions : predictions[i]}

\* C29: evaluate counts every scored edge under the one name its truth and
\* prediction give it, and predicted_dependencies lists, in edge order, the
\* names of the two nodes of exactly the scored edges predicted true.
C29_Classification ==
    pc = "evaluated" =>
        /\ evaluation.output.true_positives = Cardinality(ScoredAs(TRUE, TRUE))
        /\ evaluation.output.false_negatives = Cardinality(ScoredAs(TRUE, FALSE))
        /\ evaluation.output.false_positives = Cardinality(ScoredAs(FALSE, TRUE))
        /\ evaluation.output.true_negatives = Cardinality(ScoredAs(FALSE, FALSE))
        /\ Len(evaluation.output.predicted_dependencies) = Cardinality(ScoredTrue)
        /\ \A k \in 1..Len(evaluation.output.predicted_dependencies) :
              LET edge == Scored.edge_labels.edges[Nth(ScoredTrue, k)]
              IN  evaluation.output.predicted_dependencies[k]
                      = <<Scored.nodes[edge[1] + 1], Scored.nodes[edge[2] + 1]>>

\* an evaluation that counted a false negative and a false positive, and
\* listed the dependency of the latter
C29_Witness ==
    /\ pc = "evaluated"
    /\ evaluation.output.false_negatives = 1
    /\ evaluation.output.false_positives = 1
    /\ Len(evaluation.output.predicted_dependencies) = 1
    /\ Cardinality(ScoredAs(FALSE, TRUE)) = 1

----------------------------------------------------------------------------
(* Unconsumed entries, malformed documents, the Adamic-Adar terms *)

\* C26 as stated: every key left in the semantic table after the sweep has
\* a name that is not a vertex.
C26_LeftKeysOutsideVertexSet ==
    mpc = "done" =>
        \A key \in DOMAIN semantic_map :
            key[1] \notin graph.nodes \/ key[2] \notin graph.nodes

\* C26, amended: every key left in the semantic table after the sweep has a
\* name that is not a vertex, or pairs a name with itself; and every key of
\* the table as read that is of either kind is left.
C26_LeftKeysOutsideOrSelfPairs ==
    mpc = "done" =>
        DOMAIN semantic_map =
            {key \in DOMAIN InitialTable :
                \/ key[1] \notin graph.nodes
                \/ key[2] \notin graph.nodes
                \/ key[1] = key[2]}

\* a finished sweep that used (app, lib) and left (app, app), app being a
\* vertex
C26_Witness ==
    /\ mpc = "done"
    /\ <<"app">> \in graph.nodes
    /\ <<<<"app">>, <<"lib">>>> \in FeaturePairs
    /\ DOMAIN semantic_map = {<<<<"app">>, <<"app">>>>}

\* the document has a second context, container or dependencies element
DuplicateTag ==
    \/ odem.contexts > 1
    \/ odem.containers > 1
    \/ \E k \in 1..Len(odem.types) : odem.types[k].dependencies > 1

\* the document has exactly one of each
OneOfEach ==
    /\ odem.contexts = 1
    /\ odem.containers = 1
    /\ \A k \in 1..Len(odem.types) : odem.types[k].dependencies = 1

\* C27: from_xml raises an error and builds no graph when the document has
\* a second context, container or dependencies element, and returns a graph
\* when it has exactly one of each.
C27_DuplicateTagFails ==
    mpc # "start" =>
        /\ DuplicateTag =>
              /\ mpc = "failed"
              /\ merror \in {"ValueError", "TypeError"}
              /\ graph = NoPackageGraph("none")
              /\ data = NoData
        /\ OneOfEach => GraphBuilt /\ graph.ok /\ merror = "none"

\* a document with one context and one container fails on the second
\* dependencies element of a type
C27_Witness ==
    /\ mpc = "failed"
    /\ merror = "ValueError"
    /\ odem.contexts = 1
    /\ odem.containers = 1
    /\ odem.types[1].dependencies = 2

\* C30: for every pair of distinct vertices of a graph the builder made,
\* the nodes adamic_adar sums over are the nodes other than the two that
\* are adjacent to both, and each has a degree of at least two: the index
\* never divides by log(1).
C30_CommonNeighbourDegree ==
    /\ merror # "ZeroDivisionError"
    /\ GraphBuilt =>
          \A pair \in DistinctPairs :
              LET index == adamic_adar(graph, pair[1], pair[2])
              IN  /\ index.ok
                  /\ DOMAIN index.log_of =
                        {z \in graph.nodes \ {pair[1], pair[2]} :
                            /\ z \in graph.graph.adj[pair[1]]
                            /\ z \in graph.graph.adj[pair[2]]}
                  /\ \A z \in DOMAIN index.log_of : index.log_of[z] >= 2

\* a record whose Adamic-Adar index sums over one common neighbour of
\* degree two
C30_Witness ==
    /\ GraphBuilt
    /\ \E i \in 1..Len(data.link_features) :
          LET terms == data.link_features[i].topological_features.adamic_adar
          IN  /\ DOMAIN terms = {<<"java", "util">>}
              /\ terms[<<"java", "util">>] = 2


----------------------------------------------------------------------------
(* C21 *)

\* the graph is the path A - B - C - D
IsPath ==
    /\ graph.graph.nodes = Range(PathVertices)
    /\ \A v, w \in Range(PathVertices) :
          w \in graph.graph.adj[v] <=>
              (Position(v) = Position(w) + 1 \/ Position(w) = Position(v) + 1)

Asked(name, a, b) == query.name = name /\ query.args = <<a, b>>

\* C21 as stated: on the path A - B - C - D, common_neighbours(A, C) is 1
\* and salton(A, C) is 0.5, i.e. twice the numerator is the denominator.
C21_SaltonIsHalf ==
    IsPath =>
        /\ Asked("common_neighbours", <<"A">>, <<"C">>) =>
              query.value = Some(1)
        /\ Asked("salton", <<"A">>, <<"C">>) =>
              /\ query.ok
              /\ 4 * query.value[1].num * query.value[1].num
                    = query.value[1].den_squared

\* C21, amended: on the path A - B - C - D, common_neighbours(A, C) is 1
\* and salton(A, C) is 1 / sqrt(1 * 2), A having one neighbour and C two.
C21_SaltonOnPath ==
    IsPath =>
        /\ Asked("common_neighbours", <<"A">>, <<"C">>) =>
              query.value = Some(1)
        /\ Asked("salton", <<"A">>, <<"C">>) =>
              /\ query.ok
              /\ query.value[1].num = 1
              /\ query.value[1].den_squared = 2

C21_Witness ==
    /\ IsPath
    /\ Asked("salton", <<"A">>, <<"C">>)
    /\ query.ok
    /\ query.value[1].num = 1

----------------------------------------------------------------------------
(* C22 *)

\* the entry of self._katz for a pair, and the entry for the reversed pair
Cached(a, b) == graph.katz[1][a][b]

WithinTolerance(a, b) == Abs(Cached(a, b) - Cached(b, a)) <= KatzTolerance

\* what a call of katz that has returned, or failed, left in the state
KatzOutcome ==
    query.name = "katz" =>
        LET a == query.args[1]
            b == query.args[2]
        IN  /\ graph.katz # None
            /\ query.ok <=> WithinTolerance(a, b)
            /\ query.ok => query.value = Some(Cached(a, b))
            /\ ~query.ok => query.error = "AssertionError"

\* C22: a call katz(x, y) returns the cached entry of (x, y) exactly when
\* it is within 1e-4 of the entry of (y, x), and fails with an assertion
\* error otherwise; the cached matrix never changes once it exists, so the
\* values returned for (x, y) and for (y, x) are within 1e-4 of each other.
C22_KatzSymmetry ==
    /\ []KatzOutcome
    /\ [][graph.katz # None => graph'.katz = graph.katz]_vars

C22_Witness ==
    /\ query.name = "katz"
    /\ ~query.ok
    /\ query.error = "AssertionError"
    /\ ~WithinTolerance(query.args[1], query.args[2])

----------------------------------------------------------------------------
(* C28 *)

Stored(e) == e \in DOMAIN project_graph.features

\* C28: feature_for_edge((x, y)) returns the vector stored under (x, y) if
\* there is one, otherwise the one stored under (y, x), and raises an error
\* when neither key is stored; has_edge((x, y)) is true exactly when (x, y)
\* or (y, x) is an edge, and so has_edge((x, y)) = has_edge((y, x)).
C28_EitherDirection ==
    LET x == query.args[1]
        y == query.args[2]
    IN  /\ query.name = "feature_for_edge" =>
              /\ Stored(<<x, y>>) =>
                    /\ query.ok
                    /\ query.value = Some(project_graph.features[<<x, y>>])
              /\ (~Stored(<<x, y>>) /\ Stored(<<y, x>>)) =>
                    /\ query.ok
                    /\ query.value = Some(project_graph.features[<<y, x>>])
              /\ (~Stored(<<x, y>>) /\ ~Stored(<<y, x>>)) =>
                    /\ ~query.ok
                    /\ query.error # "none"
        /\ query.name = "has_edge" =>
              /\ query.value = Some(<<x, y>> \in project_graph.edges
                                       \/ <<y, x>> \in project_graph.edges)
              /\ query.value = Some(has_edge(project_graph, <<y, x>>))

\* the vector of the opposite direction was returned
C28_Witness ==
    /\ query.name = "feature_for_edge"
    /\ ~Stored(query.args)
    /\ Stored(<<query.args[2], query.args[1]>>)
    /\ query.ok
    /\ query.value = Some(<<1>>)

----------------------------------------------------------------------------
(* C25 *)

\* a caller of evaluate has handed it predictions
CallerScored == pc = "evaluated" /\ made_for # <<>>

\* C25: in svm.main and svm_time.main every scored edge of
\* triple.test_graph.edge_labels.edges is compared against the prediction
\* that was computed for that same edge, also when edges without features
\* were filtered out before the prediction.
C25_PredictionsAligned ==
    CallerScored =>
        \A i \in ScoredPositions :
            made_for[i] = NamePair(Scored, Scored.edge_labels.edges[i])

====
